---- MODULE Spec2Model ----
(***************************************************************************)
(* A model of pybake: the ProjectConfig record (config.py), the template   *)
(* catalog (templates.py), the ProjectGenerator that materialises a        *)
(* project tree (project_generator.py) and the `create` command (cli.py).  *)
(*                                                                         *)
(* Strings whose characters the code inspects (the project name and every  *)
(* path derived from it) are sequences of one-character strings.  A path   *)
(* is the sequence of its components counted from the filesystem root "/". *)
(***************************************************************************)
EXTENDS Integers, Sequences, FiniteSets, TLC

VARIABLES
    pc,           \* where the caller stands
    args,         \* the arguments ProjectConfig / the create command is given
    config,       \* the ProjectConfig, NoConfig before it is constructed
    project_path, \* the path create_project is called with
    error,        \* the exception that ended the run, "none" otherwise
    dirs,         \* the directories of the filesystem
    files,        \* the files of the filesystem and their content
    step,         \* the position within create_project's loop or sequence
    calls,        \* create_project calls that have returned
    made,         \* the directories create_project has created
    written,      \* the files create_project has written, with the content
    fs0,          \* the filesystem before the first call
    fs1,          \* the filesystem when the first call returned
    answers,      \* what the user answered to the command's questions
    found,        \* the result of the last get_template_config call
    listing,      \* the result of the last get_project_templates call
    prevListing,  \* the result of the call before it
    package_name, \* the value config.package_name was last read as
    edited        \* whether the user has changed a generated file

vars == <<pc, args, config, project_path, error, dirs, files, step, calls,
          made, written, fs0, fs1, answers, found, listing, prevListing, package_name, edited>>

(***************************************************************************)
(* Bounds                                                                  *)
(***************************************************************************)
MaxNameLen == 2

MaxCalls == 2

(***************************************************************************)
(* Characters and strings                                                  *)
(***************************************************************************)
UpperCase == <<"A","B","C","D","E","F","G","H","I","J","K","L","M",
               "N","O","P","Q","R","S","T","U","V","W","X","Y","Z">>

LowerCase == <<"a","b","c","d","e","f","g","h","i","j","k","l","m",
               "n","o","p","q","r","s","t","u","v","w","x","y","z">>

Digits == {"0","1","2","3","4","5","6","7","8","9"}

UpperSet == {UpperCase[i] : i \in 1..26}

LowerSet == {LowerCase[i] : i \in 1..26}

\* The characters project names are drawn from.
Chars == {"a", "B", "-", " ", "1", ".", "/"}

\* The characters that matter to a path
PathChars == {"a", ".", "/"}

RECURSIVE StringsUpTo(_, _)
StringsUpTo(chars, n) ==
    IF n = 0 THEN {<<>>}
    ELSE LET shorter == StringsUpTo(chars, n - 1)
         IN  shorter \cup {Append(s, c) : s \in shorter, c \in chars}

Demo == <<"d","e","m","o">>

MyCoolApp == <<"M","y","-","C","o","o","l"," ","A","p","p">>

DotDotTests == <<".",".","/","t","e","s","t","s">>

UpUpX == <<".",".","/",".",".","/","x">>

SampleNames == {Demo, MyCoolApp, DotDotTests, UpUpX}

\* The names a ProjectConfig is constructed with
Names == StringsUpTo(Chars, MaxNameLen) \cup SampleNames

\* The names create_project is run with
PathNames == StringsUpTo(PathChars, MaxNameLen) \cup SampleNames

\* str.lower() on one character
ToLower(c) ==
    IF c \in UpperSet
    THEN LowerCase[CHOOSE i \in 1..26 : UpperCase[i] = c]
    ELSE c

\* str.lower()
Lower(s) == [i \in 1..Len(s) |-> ToLower(s[i])]

\* str.replace(old, new) for a one-character old and new
Replace(s, old, new) == [i \in 1..Len(s) |-> IF s[i] = old THEN new ELSE s[i]]

(***************************************************************************)
(* config.py                                                               *)
(***************************************************************************)
None == "<None>"

NoConfig == [name |-> <<>>, python_version |-> "", description |-> "",
             author |-> None, email |-> None]

PythonVersions == {"", "3.12"}

\* The description the create command falls back to,
\* f"A Python project called {project_name}".
DefaultDescription == "A Python project called <name>"

Descriptions == {"", "custom", DefaultDescription}

Authors == {None, "", "Ann"}

Emails == {None, "", "ann@example.com"}

\* Python truthiness of an optional string
Truthy(s) == s # None /\ s # ""

\* __post_init__ without its check of the description
PostInit_NoDescriptionCheck(name, python_version, description) ==
    IF name = <<>> THEN "ValueError"
    ELSE IF python_version = "" THEN "ValueError"
    ELSE "none"

\* ProjectConfig.__post_init__: the exception it raises, or "none"
PostInit(name, python_version, description) ==
    IF name = <<>> THEN "ValueError"
    ELSE IF python_version = "" THEN "ValueError"
    ELSE IF description = "" THEN "ValueError"
    ELSE "none"

\* package_name without the final lower()
PackageName_NoLower(name) == Replace(Replace(name, "-", "_"), " ", "_")

\* ProjectConfig.package_name
PackageName(name) == Lower(Replace(Replace(name, "-", "_"), " ", "_"))

(***************************************************************************)
(* templates.py                                                            *)
(***************************************************************************)
\* get_project_templates(): the dict literal, in insertion order
GetProjectTemplates ==
    << [id |-> "standard",
        name |-> "Standard Python Project",
        description |-> "Complete Python project with all modern tools",
        features |-> << "uv for dependency management",
                        "pyright for static analysis",
                        "ruff for linting and formatting",
                        "beartype for runtime type checking",
                        "pytest for testing",
                        "pre-commit for git hooks",
                        "GitHub Actions for CI/CD" >>],
       [id |-> "minimal",
        name |-> "Minimal Python Project",
        description |-> "Basic Python project with essential tools",
        features |-> << "uv for dependency management",
                        "ruff for linting and formatting",
                        "pytest for testing" >>],
       [id |-> "web",
        name |-> "Web Application",
        description |-> "Python web application template",
        features |-> << "FastAPI or Flask web framework",
                        "uv for dependency management",
                        "pyright for static analysis",
                        "ruff for linting and formatting",
                        "beartype for runtime type checking",
                        "pytest for testing",
                        "pre-commit for git hooks",
                        "GitHub Actions for CI/CD" >>] >>

NoEntry == [id |-> "", name |-> "", description |-> "", features |-> <<>>]

\* get_template_config falling back to the first entry for an unknown name
GetTemplateConfig_Fallback(template_name) ==
    LET templates == GetProjectTemplates
    IN  IF ~ \E i \in 1..Len(templates) : templates[i].id = template_name
        THEN [error |-> "none", entry |-> templates[1]]
        ELSE [error |-> "none",
              entry |-> templates[CHOOSE i \in 1..Len(templates) :
                                        templates[i].id = template_name]]

\* get_template_config(template_name): the exception and the entry returned
GetTemplateConfig(template_name) ==
    LET templates == GetProjectTemplates
    IN  IF ~ \E i \in 1..Len(templates) : templates[i].id = template_name
        THEN [error |-> "ValueError", entry |-> NoEntry]
        ELSE [error |-> "none",
              entry |-> templates[CHOOSE i \in 1..Len(templates) :
                                        templates[i].id = template_name]]

\* The template names looked up
TemplateNames == {"standard", "minimal", "web", "nonexistent", "", "Standard"}

(***************************************************************************)
(* Paths (pathlib.PurePosixPath) and the filesystem                        *)
(***************************************************************************)
Slash == "/"

Dot == <<".">>

DotDot == <<".", ".">>

\* The components of a string between its separators, empty ones included
RECURSIVE Split(_)
Split(s) ==
    IF \A i \in 1..Len(s) : s[i] # Slash THEN <<s>>
    ELSE LET k == CHOOSE i \in 1..Len(s) :
                      s[i] = Slash /\ \A j \in 1..(i - 1) : s[j] # Slash
         IN  <<SubSeq(s, 1, k - 1)>> \o Split(SubSeq(s, k + 1, Len(s)))

\* The parts pathlib keeps of a string: empty and "." components are dropped
Parts(s) == SelectSeq(Split(s), LAMBDA c : c # <<>> /\ c # Dot)

IsAbsolute(s) == Len(s) > 0 /\ s[1] = Slash

\* path / s : an absolute right operand replaces the left one
Join(path, s) == IF IsAbsolute(s) THEN Parts(s) ELSE path \o Parts(s)

\* Path.parent (lexical)
Parent(path) == IF path = <<>> THEN <<>> ELSE SubSeq(path, 1, Len(path) - 1)

\* The kernel's path walk from directory cur: where the path leads and what
\* is there ("dir", "file", "absent" when only the last component is
\* missing), or the errno of a failed walk.
RECURSIVE Walk(_, _, _, _)
Walk(ds, fs, cur, parts) ==
    IF parts = <<>> THEN [status |-> "dir", at |-> cur]
    ELSE LET c    == Head(parts)
             nxt  == IF c = DotDot THEN Parent(cur) ELSE Append(cur, c)
             last == Tail(parts) = <<>>
         IN  IF nxt \in ds THEN Walk(ds, fs, nxt, Tail(parts))
             ELSE IF nxt \in DOMAIN fs
             THEN [status |-> IF last THEN "file" ELSE "ENOTDIR", at |-> nxt]
             ELSE [status |-> IF last THEN "absent" ELSE "ENOENT", at |-> nxt]

\* Path.is_dir()
IsDir(ds, fs, path) == Walk(ds, fs, <<>>, path).status = "dir"

\* os.mkdir(path)
OsMkdir(ds, fs, path) ==
    LET w == Walk(ds, fs, <<>>, path)
    IN  CASE w.status = "absent"  -> [error |-> "none", dirs |-> ds \cup {w.at}]
          [] w.status = "ENOENT"  -> [error |-> "FileNotFoundError", dirs |-> ds]
          [] w.status = "ENOTDIR" -> [error |-> "NotADirectoryError", dirs |-> ds]
          [] OTHER                -> [error |-> "FileExistsError", dirs |-> ds]

\* Whether path q lies below path p
IsBelow(p, q) == Len(q) > Len(p) /\ SubSeq(q, 1, Len(p)) = p

\* mkdir that empties a directory it finds in place
Mkdir_Recreate(ds, fs, path) ==
    LET w == Walk(ds, fs, <<>>, path)
    IN  IF w.status = "dir"
        THEN [error |-> "none", dirs |-> {d \in ds : ~ IsBelow(w.at, d)}]
        ELSE OsMkdir(ds, fs, path)

\* Path.mkdir(parents=True, exist_ok=True)
RECURSIVE Mkdir(_, _, _)
Mkdir(ds, fs, path) ==
    LET first == OsMkdir(ds, fs, path)
    IN  IF first.error = "none" THEN first
        ELSE IF first.error = "FileNotFoundError"
        THEN IF Parent(path) = path THEN first
             ELSE LET up == Mkdir(ds, fs, Parent(path))
                  IN  IF up.error # "none" THEN up
                      ELSE LET again == OsMkdir(up.dirs, fs, path)
                           IN  IF again.error \in {"none", "FileNotFoundError"}
                               THEN again
                               ELSE IF IsDir(up.dirs, fs, path)
                               THEN [error |-> "none", dirs |-> up.dirs]
                               ELSE again
        ELSE IF IsDir(ds, fs, path)
        THEN [error |-> "none", dirs |-> ds]
        ELSE first

\* write_text opening the file for exclusive creation, open(path, "x")
WriteText_Exclusive(ds, fs, path, content) ==
    LET w == Walk(ds, fs, <<>>, path)
    IN  CASE w.status = "absent" ->
               [error |-> "none", at |-> w.at,
                files |-> [p \in DOMAIN fs \cup {w.at} |->
                              IF p = w.at THEN content ELSE fs[p]]]
          [] w.status = "file"    ->
               [error |-> "FileExistsError", at |-> w.at, files |-> fs]
          [] w.status = "dir"     ->
               [error |-> "IsADirectoryError", at |-> w.at, files |-> fs]
          [] w.status = "ENOENT"  ->
               [error |-> "FileNotFoundError", at |-> w.at, files |-> fs]
          [] OTHER                ->
               [error |-> "NotADirectoryError", at |-> w.at, files |-> fs]

\* Path.write_text(content): open(path, "w") and write
WriteText(ds, fs, path, content) ==
    LET w == Walk(ds, fs, <<>>, path)
    IN  CASE w.status \in {"absent", "file"} ->
               [error |-> "none", at |-> w.at,
                files |-> [p \in DOMAIN fs \cup {w.at} |->
                              IF p = w.at THEN content ELSE fs[p]]]
          [] w.status = "dir"     ->
               [error |-> "IsADirectoryError", at |-> w.at, files |-> fs]
          [] w.status = "ENOENT"  ->
               [error |-> "FileNotFoundError", at |-> w.at, files |-> fs]
          [] OTHER                ->
               [error |-> "NotADirectoryError", at |-> w.at, files |-> fs]

(***************************************************************************)
(* project_generator.py: the text written to each file                     *)
(***************************************************************************)
S_src == <<"s","r","c">>

S_src_slash == <<"s","r","c","/">>

S_tests == <<"t","e","s","t","s">>

S_github == <<".","g","i","t","h","u","b">>

S_github_workflows == <<".","g","i","t","h","u","b","/","w","o","r","k","f","l","o","w","s">>

S_workflows == <<"w","o","r","k","f","l","o","w","s">>

S_pyproject == <<"p","y","p","r","o","j","e","c","t",".","t","o","m","l">>

S_python_version == <<".","p","y","t","h","o","n","-","v","e","r","s","i","o","n">>

S_gitignore == <<".","g","i","t","i","g","n","o","r","e">>

S_readme == <<"R","E","A","D","M","E",".","m","d">>

S_precommit == <<".","p","r","e","-","c","o","m","m","i","t","-","c","o","n","f","i","g",".","y","a","m","l">>

S_ci == <<"c","i",".","y","m","l">>

S_init == <<"_","_","i","n","i","t","_","_",".","p","y">>

S_main == <<"m","a","i","n",".","p","y">>

S_test_ == <<"t","e","s","t","_">>

S_py == <<".","p","y">>

\* A file's text: the template it is rendered from ("" when the text has no
\* literal part) and the values interpolated into it.
Text(template, name, package, python_version, description, author, email) ==
    [template |-> template, name |-> name, package_name |-> package,
     python_version |-> python_version, description |-> description,
     author |-> author, email |-> email]

\* The empty string
EmptyText == Text("", <<>>, <<>>, "", "", "", "")

\* len(text) = 0
IsEmptyText(t) ==
    /\ t.template = ""
    /\ t.name = <<>> /\ t.package_name = <<>>
    /\ t.python_version = "" /\ t.description = ""
    /\ t.author = "" /\ t.email = ""

\* Text that create_project never writes
ForeignText == Text("foreign", <<>>, <<>>, "", "", "", "")

\* config.author or "Your Name"
AuthorOr(cfg) == IF Truthy(cfg.author) THEN cfg.author ELSE "Your Name"

\* config.email or "your.email@example.com"
EmailOr(cfg) == IF Truthy(cfg.email) THEN cfg.email ELSE "your.email@example.com"

PyprojectContent(cfg) ==
    Text("pyproject", cfg.name, <<>>, cfg.python_version, cfg.description,
         AuthorOr(cfg), EmailOr(cfg))

GitignoreContent(cfg) == Text("gitignore", <<>>, <<>>, "", "", "", "")

ReadmeContent(cfg) ==
    Text("readme", cfg.name, PackageName(cfg.name), cfg.python_version,
         cfg.description, AuthorOr(cfg), EmailOr(cfg))

PrecommitContent(cfg) == Text("precommit", <<>>, <<>>, "", "", "", "")

GithubActionsContent(cfg) == Text("ci", <<>>, <<>>, cfg.python_version, "", "", "")

InitContent(cfg) == Text("init", cfg.name, <<>>, "", "", AuthorOr(cfg), EmailOr(cfg))

MainContent(cfg) == Text("main", cfg.name, <<>>, "", "", "", "")

TestContent(cfg) == Text("test", cfg.name, PackageName(cfg.name), "", "", "", "")

(***************************************************************************)
(* project_generator.py: directories and files, in the order of the code   *)
(***************************************************************************)
\* _create_directory_structure: the list `directories`
Directories(cfg) ==
    << S_src, S_src_slash \o PackageName(cfg.name), S_tests, S_github,
       S_github_workflows >>

\* _generate_project_files: the _generate_file calls (path, filename, content)
FileCalls(cfg, root) ==
    LET pkg  == PackageName(cfg.name)
        call(path, filename, content) ==
            [path |-> path, filename |-> filename, content |-> content]
    IN << call(root, S_pyproject, PyprojectContent(cfg)),
          call(root, S_python_version,
               Text("", <<>>, <<>>, cfg.python_version, "", "", "")),
          call(root, S_gitignore, GitignoreContent(cfg)),
          call(root, S_readme, ReadmeContent(cfg)),
          call(root, S_precommit, PrecommitContent(cfg)),
          call(Join(Join(root, S_github), S_workflows), S_ci,
               GithubActionsContent(cfg)),
          call(Join(Join(root, S_src), pkg), S_init, InitContent(cfg)),
          call(Join(Join(root, S_src), pkg), S_main, MainContent(cfg)),
          call(Join(root, S_tests), S_init, EmptyText),
          call(Join(root, S_tests), S_test_ \o pkg \o S_py, TestContent(cfg)) >>

(***************************************************************************)
(* The filesystem a run starts from                                        *)
(***************************************************************************)
Cwd == << <<"w">> >>

\* The root the library caller passes to create_project
RootPath == << <<"w">>, <<"r">> >>

NoFiles == [p \in {} |-> EmptyText]

BaseFs == [dirs |-> {<<>>, Cwd}, files |-> NoFiles]

WithDir(fs, path) ==
    [dirs |-> Mkdir(fs.dirs, fs.files, path).dirs, files |-> fs.files]

WithFile(fs, path, text) ==
    [dirs |-> fs.dirs, files |-> WriteText(fs.dirs, fs.files, path, text).files]

S_notes == <<"n","o","t","e","s",".","t","x","t">>

S_docs == <<"d","o","c","s">>

S_test_dotdot == <<"t","e","s","t","_",".",".">>

\* The project directory is absent; it exists and is empty; it holds files
\* and directories of an earlier use (one of them at a path create_project
\* writes); its `src` is a file; its tests directory has subdirectories.
InitialFilesystems(root) ==
    LET empty == WithDir(BaseFs, root)
        docs  == WithDir(empty, Join(root, S_docs))
        used  == WithFile(WithFile(WithFile(docs,
                     Join(root, S_notes), ForeignText),
                     Join(Join(root, S_docs), S_notes), ForeignText),
                     Join(root, S_readme), ForeignText)
        block == WithFile(empty, Join(root, S_src), ForeignText)
        tests == WithDir(WithDir(WithFile(empty,
                     Join(root, S_notes), ForeignText),
                     Join(Join(root, S_tests), S_test_)),
                     Join(Join(root, S_tests), S_test_dotdot))
    IN  {BaseFs, empty, used, block, tests}

\* The filesystems the create command is started in
CliFilesystems(root) ==
    {fs \in InitialFilesystems(root) : fs.files = NoFiles \/ Cardinality(DOMAIN fs.files) > 2}

\* The filesystem of a caller that never touches it
PlainFilesystem(root) == {BaseFs}

(***************************************************************************)
(* State                                                                   *)
(***************************************************************************)
NoAnswers == [overwrite |-> "unasked", proceed |-> "unasked"]

Unread == <<"<unread>">>

NoResult == [asked |-> None, error |-> "none", entry |-> NoEntry]

InitWith(via, argSet, roots, Filesystems(_)) ==
    /\ pc = via
    /\ args \in argSet
    /\ config = NoConfig
    /\ project_path \in roots
    /\ error = "none"
    /\ \E fs \in Filesystems(IF via = "cli" THEN Join(Cwd, args.name)
                                           ELSE project_path) :
          /\ dirs = fs.dirs
          /\ files = fs.files
          /\ fs0 = fs
          /\ fs1 = fs
    /\ step = 0
    /\ calls = 0
    /\ made = {}
    /\ written = NoFiles
    /\ answers = NoAnswers
    /\ found = NoResult
    /\ listing = <<>>
    /\ prevListing = <<>>
    /\ package_name = Unread
    /\ edited = FALSE

\* An exception leaves the function: nothing else happens
Raise(e) ==
    /\ error' = e
    /\ pc' = "raised"
    /\ UNCHANGED <<args, config, project_path, dirs, files, step, calls, made,
                   written, fs0, fs1, answers, found, listing, prevListing, package_name, edited>>

(***************************************************************************)
(* config.py: ProjectConfig(name, python_version, description, author,     *)
(* email) as a library caller constructs it                                *)
(***************************************************************************)
NewConfig(name, python_version, description, author, email) ==
    [name |-> name, python_version |-> python_version,
     description |-> description, author |-> author, email |-> email]

Construct ==
    /\ pc = "api"
    /\ LET e == PostInit(args.name, args.python_version, args.description)
       IN  IF e # "none" THEN Raise(e)
           ELSE /\ config' = NewConfig(args.name, args.python_version,
                                       args.description, args.author, args.email)
                /\ pc' = "ready"
                /\ UNCHANGED <<args, project_path, error, dirs, files, step,
                               calls, made, written, fs0, fs1, answers, found,
                               listing, prevListing, package_name, edited>>

\* A caller reads config.package_name
ReadPackageName ==
    /\ pc = "ready"
    /\ package_name' = PackageName(config.name)
    /\ UNCHANGED <<pc, args, config, project_path, error, dirs, files, step,
                   calls, made, written, fs0, fs1, answers, found, listing,
                   prevListing, edited>>

(***************************************************************************)
(* project_generator.py: create_project, one filesystem call per step.     *)
(* Any filesystem call may also fail for a reason of the environment       *)
(* (permission denied, disk full).                                         *)
(***************************************************************************)
\* project_path.mkdir(parents=True, exist_ok=True)
CreateProjectDir(fault) ==
    /\ pc = "ready"
    /\ LET r == Mkdir(dirs, files, project_path)
       IN  IF fault THEN Raise("PermissionError")
           ELSE IF r.error # "none" THEN Raise(r.error)
           ELSE /\ dirs' = r.dirs
                /\ made' = made \cup (r.dirs \ dirs)
                /\ pc' = "dirs"
                /\ step' = 1
                /\ UNCHANGED <<args, config, project_path, error, files, calls,
                               written, fs0, fs1, answers, found, listing,
                               prevListing, package_name, edited>>

\* _create_directory_structure: one iteration of the loop
CreateDirectory(fault) ==
    /\ pc = "dirs"
    /\ LET directories == Directories(config)
           r == Mkdir(dirs, files, Join(project_path, directories[step]))
       IN  IF fault THEN Raise("PermissionError")
           ELSE IF r.error # "none" THEN Raise(r.error)
           ELSE /\ dirs' = r.dirs
                /\ made' = made \cup (r.dirs \ dirs)
                /\ IF step < Len(directories)
                   THEN pc' = "dirs" /\ step' = step + 1
                   ELSE pc' = "files" /\ step' = 1
                /\ UNCHANGED <<args, config, project_path, error, files, calls,
                               written, fs0, fs1, answers, found, listing,
                               prevListing, package_name, edited>>

\* _generate_file removing the files written so far when a write fails
GenerateFile_Rollback(fault) ==
    /\ pc = "files"
    /\ LET fileCalls == FileCalls(config, project_path)
           c == fileCalls[step]
           r == WriteText(dirs, files, Join(c.path, c.filename), c.content)
       IN  IF fault \/ r.error # "none"
           THEN /\ error' = IF fault THEN "PermissionError" ELSE r.error
                /\ pc' = "raised"
                /\ files' = [p \in DOMAIN files \ DOMAIN written |-> files[p]]
                /\ UNCHANGED <<args, config, project_path, dirs, step, calls,
                               made, written, fs0, fs1, answers, found, listing,
                               prevListing, package_name, edited>>
           ELSE /\ files' = r.files
                /\ written' = [p \in DOMAIN written \cup {r.at} |->
                                  IF p = r.at THEN c.content ELSE written[p]]
                /\ IF step < Len(fileCalls)
                   THEN /\ pc' = "files"
                        /\ step' = step + 1
                        /\ UNCHANGED <<calls, fs1>>
                   ELSE /\ pc' = "returned"
                        /\ step' = 0
                        /\ calls' = calls + 1
                        /\ fs1' = IF calls = 0
                                  THEN [dirs |-> dirs, files |-> r.files]
                                  ELSE fs1
                /\ UNCHANGED <<args, config, project_path, error, dirs, made,
                               fs0, answers, found, listing, prevListing,
                               package_name, edited>>

\* _generate_project_files: one _generate_file call; after the last one
\* _make_scripts_executable does nothing and create_project returns
GenerateFile(fault) ==
    /\ pc = "files"
    /\ LET fileCalls == FileCalls(config, project_path)
           c == fileCalls[step]
           r == WriteText(dirs, files, Join(c.path, c.filename), c.content)
       IN  IF fault THEN Raise("PermissionError")
           ELSE IF r.error # "none" THEN Raise(r.error)
           ELSE /\ files' = r.files
                /\ written' = [p \in DOMAIN written \cup {r.at} |->
                                  IF p = r.at THEN c.content ELSE written[p]]
                /\ IF step < Len(fileCalls)
                   THEN /\ pc' = "files"
                        /\ step' = step + 1
                        /\ UNCHANGED <<calls, fs1>>
                   ELSE /\ pc' = "returned"
                        /\ step' = 0
                        /\ calls' = calls + 1
                        /\ fs1' = IF calls = 0
                                  THEN [dirs |-> dirs, files |-> r.files]
                                  ELSE fs1
                /\ UNCHANGED <<args, config, project_path, error, dirs, made,
                               fs0, answers, found, listing, prevListing, package_name, edited>>

\* Between two calls the user changes a file the first call generated
UserEdits(p) ==
    /\ pc = "returned"
    /\ args.via = "api"
    /\ calls < MaxCalls
    /\ p \in DOMAIN written
    /\ files' = [files EXCEPT ![p] = ForeignText]
    /\ pc' = "edited"
    /\ edited' = TRUE
    /\ UNCHANGED <<args, config, project_path, error, dirs, step, calls, made,
                   written, fs0, fs1, answers, found, listing, prevListing,
                   package_name>>

\* The library caller calls create_project again, same config and root
CallAgain ==
    /\ pc \in {"returned", "edited"}
    /\ args.via = "api"
    /\ calls < MaxCalls
    /\ pc' = "ready"
    /\ made' = {}
    /\ written' = NoFiles
    /\ UNCHANGED <<args, config, project_path, error, dirs, files, step, calls,
                   fs0, fs1, answers, found, listing, prevListing, package_name, edited>>

CreateProject ==
    \/ \E fault \in BOOLEAN : CreateProjectDir(fault)
    \/ \E fault \in BOOLEAN : CreateDirectory(fault)
    \/ \E fault \in BOOLEAN : GenerateFile(fault)

(***************************************************************************)
(* templates.py as a library caller uses it                                *)
(***************************************************************************)
LookupTemplate(template_name) ==
    /\ LET r == GetTemplateConfig(template_name)
       IN  found' = [asked |-> template_name, error |-> r.error, entry |-> r.entry]
    /\ UNCHANGED <<pc, args, config, project_path, error, dirs, files, step,
                   calls, made, written, fs0, fs1, answers, listing, prevListing, package_name, edited>>

ListTemplates ==
    /\ prevListing' = listing
    /\ listing' = GetProjectTemplates
    /\ UNCHANGED <<pc, args, config, project_path, error, dirs, files, step,
                   calls, made, written, fs0, fs1, answers, found,
                   package_name, edited>>

(***************************************************************************)
(* cli.py: the create command                                              *)
(***************************************************************************)
\* What Prompt.ask(..., default=d) returns: the default or what was typed
PromptAnswers(d) == {d, "typed"}

\* path = Path.cwd(); project_path = path / project_name;
\* if project_path.exists(): ask whether to overwrite
CliStart ==
    /\ pc = "cli"
    /\ LET p == Join(Cwd, args.name)
       IN  /\ project_path' = p
           /\ pc' = IF Walk(dirs, files, <<>>, p).status \in {"dir", "file"}
                    THEN "confirm_overwrite" ELSE "config"
    /\ UNCHANGED <<args, config, error, dirs, files, step, calls, made,
                   written, fs0, fs1, answers, found, listing, prevListing, package_name, edited>>

\* Confirm.ask("Project ... already exists. Overwrite?")
CliConfirmOverwrite(yes) ==
    /\ pc = "confirm_overwrite"
    /\ answers' = [answers EXCEPT !.overwrite = IF yes THEN "yes" ELSE "no"]
    /\ IF yes THEN pc' = "config" /\ error' = error
              ELSE pc' = "raised" /\ error' = "Exit"
    /\ UNCHANGED <<args, config, project_path, dirs, files, step, calls, made,
                   written, fs0, fs1, found, listing, prevListing, package_name, edited>>

\* config = ProjectConfig(name=project_name, ..., description=description or
\* f"A Python project called {project_name}", ...)
CliConfig ==
    /\ pc = "config"
    /\ LET description == IF Truthy(args.description) THEN args.description
                          ELSE DefaultDescription
           e == PostInit(args.name, args.python_version, description)
       IN  IF e # "none" THEN Raise(e)
           ELSE /\ config' = NewConfig(args.name, args.python_version,
                                       description, args.author, args.email)
                /\ pc' = IF args.interactive THEN "gather" ELSE "summary"
                /\ UNCHANGED <<args, project_path, error, dirs, files, step,
                               calls, made, written, fs0, fs1, answers, found,
                               listing, prevListing, package_name, edited>>

\* _gather_project_info asking for the author whether or not one is set
GatherProjectInfo_AlwaysAsksAuthor(cfg, author, email, description) ==
    LET c1 == [cfg EXCEPT !.author = author]
        c2 == IF ~ Truthy(c1.email) THEN [c1 EXCEPT !.email = email] ELSE c1
    IN  IF c2.description = "" \/ c2.description = DefaultDescription
        THEN [c2 EXCEPT !.description = description]
        ELSE c2

\* _gather_project_info(config) with the three answers the prompts would get
GatherProjectInfo(cfg, author, email, description) ==
    LET c1 == IF ~ Truthy(cfg.author) THEN [cfg EXCEPT !.author = author] ELSE cfg
        c2 == IF ~ Truthy(c1.email) THEN [c1 EXCEPT !.email = email] ELSE c1
    IN  IF c2.description = "" \/ c2.description = DefaultDescription
        THEN [c2 EXCEPT !.description = description]
        ELSE c2

\* if interactive: config = _gather_project_info(config)
CliGather(author, email, description) ==
    /\ pc = "gather"
    /\ config' = GatherProjectInfo(config, author, email, description)
    /\ pc' = "summary"
    /\ UNCHANGED <<args, project_path, error, dirs, files, step, calls, made,
                   written, fs0, fs1, answers, found, listing, prevListing, package_name, edited>>

\* _show_project_summary(config, project_path)
CliSummary ==
    /\ pc = "summary"
    /\ pc' = "confirm"
    /\ UNCHANGED <<args, config, project_path, error, dirs, files, step, calls,
                   made, written, fs0, fs1, answers, found, listing, prevListing, package_name, edited>>

\* The command going on to create the project whatever the answer is
CliConfirm_IgnoresAnswer(yes) ==
    /\ pc = "confirm"
    /\ answers' = [answers EXCEPT !.proceed = IF yes THEN "yes" ELSE "no"]
    /\ pc' = "ready"
    /\ UNCHANGED <<args, config, project_path, error, dirs, files, step, calls,
                   made, written, fs0, fs1, found, listing, prevListing,
                   package_name, edited>>

\* Confirm.ask("Proceed with project creation?"), then
\* generator = ProjectGenerator(config) and generator.create_project(...)
CliConfirm(yes) ==
    /\ pc = "confirm"
    /\ answers' = [answers EXCEPT !.proceed = IF yes THEN "yes" ELSE "no"]
    /\ IF yes THEN pc' = "ready" /\ error' = error
              ELSE pc' = "raised" /\ error' = "Exit"
    /\ UNCHANGED <<args, config, project_path, dirs, files, step, calls, made,
                   written, fs0, fs1, found, listing, prevListing, package_name, edited>>

\* create_project returned: _show_success_message, the command ends with 0
CliSuccess ==
    /\ pc = "returned"
    /\ args.via = "cli"
    /\ pc' = "exit0"
    /\ UNCHANGED <<args, config, project_path, error, dirs, files, step, calls,
                   made, written, fs0, fs1, answers, found, listing, prevListing, package_name, edited>>

\* except Exception as e: print the error, raise typer.Exit(1)
CliExcept ==
    /\ pc = "raised"
    /\ args.via = "cli"
    /\ pc' = "exit1"
    /\ UNCHANGED <<args, config, project_path, error, dirs, files, step, calls,
                   made, written, fs0, fs1, answers, found, listing, prevListing, package_name, edited>>

(***************************************************************************)
(* Specifications                                                          *)
(***************************************************************************)
ApiArgs ==
    [via : {"api"}, name : PathNames, python_version : PythonVersions,
     description : {"", "custom"}, author : {None, "Ann"}, email : {None},
     interactive : {FALSE}]

LibArgs ==
    [via : {"api"}, name : Names, python_version : PythonVersions,
     description : Descriptions, author : Authors, email : Emails,
     interactive : {FALSE}]

\* A library caller constructs a ProjectConfig and calls create_project
Init == InitWith("api", ApiArgs, {RootPath}, InitialFilesystems)

Next ==
    \/ Construct
    \/ CreateProject
    \/ \E p \in DOMAIN written : UserEdits(p)
    \/ CallAgain

Spec == Init /\ [][Next]_vars

\* A library caller constructs a ProjectConfig and queries the catalog
InitLib == InitWith("api", LibArgs, {RootPath}, PlainFilesystem)

NextLib ==
    \/ Construct
    \/ ReadPackageName
    \/ \E template_name \in TemplateNames : LookupTemplate(template_name)
    \/ ListTemplates

SpecLib == InitLib /\ [][NextLib]_vars

\* The project names the create command is run with
CliNames == {<<>>, <<"a">>, <<"/">>, Demo, UpUpX}

CliArgs ==
    [via : {"cli"}, name : CliNames, python_version : PythonVersions,
     description : {None, "", "custom", DefaultDescription},
     author : Authors, email : {None, "ann@example.com"},
     interactive : BOOLEAN]

\* The create command from its start to its exit code
InitCli == InitWith("cli", CliArgs, {Cwd}, CliFilesystems)

NextCli ==
    \/ CliStart
    \/ \E yes \in BOOLEAN : CliConfirmOverwrite(yes)
    \/ CliConfig
    \/ \E author \in PromptAnswers("Your Name"),
          email \in PromptAnswers("your.email@example.com"),
          description \in PromptAnswers(DefaultDescription) :
          CliGather(author, email, description)
    \/ CliSummary
    \/ \E yes \in BOOLEAN : CliConfirm(yes)
    \/ CreateProject
    \/ CliSuccess
    \/ CliExcept

SpecCli == InitCli /\ [][NextCli]_vars

(***************************************************************************)
(* Properties                                                              *)
(***************************************************************************)
\* C1: constructing a ProjectConfig raises the validation error (ValueError)
\* exactly when name, python_version or description is empty; when all three
\* are non-empty it succeeds and holds the arguments, whatever author and
\* email are.
C1_ConstructionValidates ==
    pc # "api" =>
        LET someEmpty == \/ args.name = <<>>
                         \/ args.python_version = ""
                         \/ args.description = ""
        IN  /\ someEmpty => pc = "raised" /\ error = "ValueError"
                            /\ config = NoConfig
            /\ ~ someEmpty => /\ pc = "ready" /\ error = "none"
                              /\ config.name = args.name
                              /\ config.python_version = args.python_version
                              /\ config.description = args.description
                              /\ config.author = args.author
                              /\ config.email = args.email

\* Construction was refused for an empty description alone, the author
\* being the empty string
C1_Witness ==
    /\ pc = "raised" /\ error = "ValueError"
    /\ args.name # <<>> /\ args.python_version # "" /\ args.description = ""
    /\ args.author = ""

\* C3: package_name is name with every "-" and every " " turned into "_" and
\* every upper-case letter turned into its lower-case letter, so it has no
\* "-", no " " and no upper-case letter; "My-Cool App" gives "my_cool_app".
C3_PackageNameNormalised ==
    package_name # Unread =>
        /\ Len(package_name) = Len(config.name)
        /\ \A i \in 1..Len(config.name) :
              LET c == config.name[i]
                  d == package_name[i]
              IN  /\ c \in {"-", " "} => d = "_"
                  /\ c \in UpperSet =>
                        \E k \in 1..26 : UpperCase[k] = c /\ LowerCase[k] = d
                  /\ c \notin {"-", " "} \cup UpperSet => d = c
                  /\ d \notin {"-", " "} \cup UpperSet
        /\ config.name = MyCoolApp =>
              package_name = <<"m","y","_","c","o","o","l","_","a","p","p">>

\* package_name has been read for "My-Cool App"
C3_Witness == package_name # Unread /\ config.name = MyCoolApp

\* A module identifier: letters, digits and underscores, no leading digit
IsIdentifier(s) ==
    /\ Len(s) > 0
    /\ \A i \in 1..Len(s) : s[i] \in UpperSet \cup LowerSet \cup Digits \cup {"_"}
    /\ s[1] \notin Digits

\* C4: the package_name of every constructed ProjectConfig is a valid module
\* identifier.
C4_PackageNameIsIdentifier ==
    package_name # Unread => IsIdentifier(package_name)

\* C10: get_template_config returns the entry registered under the name when
\* the name is one of standard, minimal, web and raises for every other name;
\* get_project_templates returns the same entries in the same order on every
\* call; the entry of "standard" has features.
C10_CatalogLookup ==
    /\ found.asked # None =>
          IF found.asked \in {"standard", "minimal", "web"}
          THEN /\ found.error = "none"
               /\ found.entry.id = found.asked
               /\ listing # <<>> =>
                     \E i \in 1..Len(listing) : listing[i] = found.entry
          ELSE found.error = "ValueError" /\ found.entry = NoEntry
    /\ found.asked = "standard" => Len(found.entry.features) > 0
    /\ listing # <<>> =>
          [i \in 1..Len(listing) |-> listing[i].id]
              = <<"standard", "minimal", "web">>
    /\ (listing # <<>> /\ prevListing # <<>>) => listing = prevListing

\* An unknown name was looked up after the catalog was listed twice
C10_Witness ==
    /\ found.asked = "nonexistent" /\ found.error = "ValueError"
    /\ listing # <<>> /\ prevListing # <<>>

RECURSIVE Normalize(_, _)
Normalize(acc, parts) ==
    IF parts = <<>> THEN acc
    ELSE Normalize(IF Head(parts) = DotDot THEN Parent(acc)
                   ELSE Append(acc, Head(parts)), Tail(parts))

\* Path p is root or lies under it
IsUnder(root, p) == Len(p) >= Len(root) /\ SubSeq(p, 1, Len(root)) = root

\* The file at a path given relative to root, as the specification writes it
FileAt(root, relative) == Walk(dirs, files, <<>>, Join(root, relative))

ExistsUnder(root, relative) ==
    LET w == FileAt(root, relative)
    IN  w.status = "file" /\ IsUnder(root, w.at)

NonEmptyUnder(root, relative) ==
    LET w == FileAt(root, relative)
    IN  ExistsUnder(root, relative) /\ ~ IsEmptyText(files[w.at])

\* C5: when create_project has returned, every path of the generated file
\* set is a file under the root, and src/<package_name>/__init__.py,
\* src/<package_name>/main.py, tests/test_<package_name>.py and
\* .github/workflows/ci.yml are not empty.
C5_GeneratedFilesExist ==
    pc = "returned" =>
        LET pkg    == PackageName(config.name)
            srcPkg == S_src_slash \o pkg \o <<Slash>>
            tests  == S_tests \o <<Slash>>
            ci     == S_github_workflows \o <<Slash>> \o S_ci
        IN  /\ \A f \in {S_pyproject, S_python_version, S_gitignore, S_readme,
                        S_precommit, tests \o S_init} :
                  ExistsUnder(project_path, f)
            /\ \A f \in {ci, srcPkg \o S_init, srcPkg \o S_main,
                        tests \o S_test_ \o pkg \o S_py} :
                  NonEmptyUnder(project_path, f)

\* C6: after a first call has returned, a further call with the same config
\* and root raises nothing of its own (only a failure of the environment can
\* end it), also after the user changed a generated file, and when it
\* returns the filesystem is what it was when the first call returned.
C6_SecondCallOverwrites ==
    /\ (calls >= 1 /\ pc = "raised") => error = "PermissionError"
    /\ (calls >= 2 /\ pc = "returned") =>
          dirs = fs1.dirs /\ files = fs1.files

\* The second call has returned after the user changed a generated file
C6_Witness == calls = 2 /\ pc = "returned" /\ edited

\* The paths the _generate_file calls name, ".." removed lexically
GeneratedPaths ==
    IF config = NoConfig THEN {}
    ELSE LET fileCalls == FileCalls(config, project_path)
         IN  {Normalize(<<>>, Join(fileCalls[i].path, fileCalls[i].filename)) :
                 i \in 1..Len(fileCalls)}

\* C7: every directory and every file that was there before create_project
\* is still there, a file that is not at a generated path has its content,
\* and no step removes a directory or a file.
C7_NonDestructive ==
    /\ [](/\ fs0.dirs \subseteq dirs
          /\ \A p \in DOMAIN fs0.files :
                /\ p \in DOMAIN files
                /\ p \notin GeneratedPaths => files[p] = fs0.files[p])
    /\ [][dirs \subseteq dirs' /\ DOMAIN files \subseteq DOMAIN files']_vars

\* create_project returned in a directory that held a README.md and other
\* files: the README.md was overwritten, the others are as they were
C7_Witness ==
    /\ pc = "returned"
    /\ \E p \in DOMAIN fs0.files : files[p] # fs0.files[p]
    /\ \E p \in DOMAIN fs0.files : files[p] = fs0.files[p]
    /\ \E d \in fs0.dirs : IsBelow(project_path, d)

\* C8: every directory create_project creates and every file it writes lies
\* under the root it was called with.
C8_StaysUnderRoot ==
    /\ \A d \in made : IsUnder(project_path, d)
    /\ \A p \in DOMAIN written : IsUnder(project_path, p)

\* C9: create_project never raises the validation error; an exception ends
\* the call at once (the error stays, the filesystem no longer changes), and
\* the directories created and the files written before the failing step are
\* on disk with the content they were given.
C9_NoRollback ==
    /\ [](/\ config # NoConfig => error # "ValueError"
          /\ error # "none" => pc = "raised"
          /\ (pc = "raised" /\ config # NoConfig) =>
                /\ made \subseteq dirs
                /\ \A p \in DOMAIN written :
                      p \in DOMAIN files /\ files[p] = written[p])
    /\ [][pc = "raised" =>
             dirs' = dirs /\ files' = files /\ error' = error]_vars

\* A write failed after directories were created and files written
C9_Witness ==
    /\ pc = "raised" /\ error # "ValueError"
    /\ made # {} /\ written # NoFiles /\ step > 3

\* The root and the five directories of the skeleton are directories
SkeletonExists ==
    /\ IsDir(dirs, files, project_path)
    /\ \A relative \in {S_src, S_src_slash \o PackageName(config.name),
                       S_tests, S_github, S_github_workflows} :
          IsDir(dirs, files, Join(project_path, relative))

\* The path the next _generate_file call writes to
NextFilePath ==
    LET c == FileCalls(config, project_path)[step]
    IN  Join(c.path, c.filename)

\* C11: within a create_project call the root exists before the skeleton is
\* created and the whole skeleton exists before any file is written, and
\* every file write finds the parent directory of its path in place.
C11_DirectoriesBeforeFiles ==
    /\ pc = "dirs" => IsDir(dirs, files, project_path) /\ written = NoFiles
    /\ pc = "files" => SkeletonExists
    /\ written # NoFiles => SkeletonExists
    /\ pc = "files" => IsDir(dirs, files, Parent(NextFilePath))

\* create_project has been invoked
Invoked == pc \in {"ready", "dirs", "files", "returned", "exit0"}

\* The filesystem is as the command found it
Untouched ==
    /\ dirs = fs0.dirs /\ files = fs0.files
    /\ made = {} /\ written = NoFiles

\* The project path was there when the command started
ExistedAtStart ==
    Walk(fs0.dirs, fs0.files, <<>>, Join(Cwd, args.name)).status
        \in {"dir", "file"}

\* The user said no to a question, or ProjectConfig raised
Refused ==
    \/ answers.overwrite = "no"
    \/ answers.proceed = "no"
    \/ error = "ValueError"

\* C12: the create command invokes create_project, and the filesystem is
\* touched, only when the ProjectConfig was constructed, the user said yes
\* to "Proceed with project creation?" and, the project path being there
\* already, also said yes to the overwrite question; after a no or a failed
\* construction the command is on its way to exit code 1, never to 0, and
\* the filesystem is as it was.
C12_CreationIsGated ==
    /\ []((Invoked \/ ~ Untouched) =>
            /\ config # NoConfig
            /\ answers.proceed = "yes"
            /\ ExistedAtStart => answers.overwrite = "yes")
    /\ [](Refused => pc \in {"raised", "exit1"} /\ Untouched)
    /\ [](pc = "exit0" => calls = 1 /\ ~ Refused)
    /\ [][pc = "raised" => pc' = "exit1"]_vars

\* The project was created over an existing path after two yes answers
C12_Witness ==
    /\ pc = "exit0" /\ ExistedAtStart
    /\ answers.overwrite = "yes" /\ answers.proceed = "yes"
    /\ written # NoFiles

====
